---- MODULE Spec2Model ----
(***************************************************************************)
(* MemoryBridge: a shared key-value table (the sqlite table "memories")    *)
(* used by several MemoryBridge instances, each bound to one agent name.   *)
(*                                                                         *)
(* Strings are sequences of one-character strings, so that key prefixing   *)
(* ("ATLAS:" + key), upper-casing and JSON text are computed, not assumed. *)
(* Python values are records tagged with their Python type.                *)
(***************************************************************************)
EXTENDS Integers, Sequences, FiniteSets, TLC

\* ------------------------------------------------------------------ bounds
MaxClock == 1
MaxAccess == 1
MaxEntries == 2

\* ------------------------------------------------------------ Python values
None == [type |-> "NoneType"]
PyStr(s) == [type |-> "str", s |-> s]
PyList(items) == [type |-> "list", items |-> items]
PyTuple(items) == [type |-> "tuple", items |-> items]

\* SQL NULL of a TEXT column (no JSON text is empty).
NULL == <<>>

\* str.upper(), on the alphabet the model uses.
UpperChar(c) ==
    CASE c = "a" -> "A"
      [] c = "b" -> "B"
      [] c = "k" -> "K"
      [] OTHER -> c

upper(s) == [i \in 1..Len(s) |-> UpperChar(s[i])]

\* ------------------------------------------------------------------ json
Digit(n) == <<"0", "1", "2", "3", "4", "5", "6", "7", "8", "9">>[n + 1]

DigitVal(c) == CHOOSE n \in 0..9 : Digit(n) = c

RECURSIVE JoinItems(_)
JoinItems(items) ==
    IF items = <<>> THEN <<>>
    ELSE IF Len(items) = 1 THEN <<Digit(items[1])>>
    ELSE <<Digit(items[1]), ",", " ">> \o JoinItems(Tail(items))

\* str(value) written in place of json.dumps(value): a string loses its quotes
json_dumps_Str(value) ==
    CASE value.type = "str" -> value.s
      [] value.type \in {"list", "tuple"} ->
            <<"[">> \o JoinItems(value.items) \o <<"]">>
      [] value.type = "NoneType" -> <<"N", "o", "n", "e">>

\* json.dumps(value): lists and tuples both become a JSON array.
json_dumps(value) ==
    CASE value.type = "str" -> <<"\"">> \o value.s \o <<"\"">>
      [] value.type \in {"list", "tuple"} ->
            <<"[">> \o JoinItems(value.items) \o <<"]">>
      [] value.type = "NoneType" -> <<"n", "u", "l", "l">>

RECURSIVE ParseItems(_)
ParseItems(text) ==
    IF text = <<>> THEN <<>>
    ELSE IF Len(text) = 1 THEN <<DigitVal(text[1])>>
    ELSE <<DigitVal(text[1])>> \o ParseItems(SubSeq(text, 4, Len(text)))

\* json.loads(text): a JSON array always comes back as a list.
json_loads(text) ==
    IF text[1] = "\"" THEN PyStr(SubSeq(text, 2, Len(text) - 1))
    ELSE IF text[1] = "[" THEN PyList(ParseItems(SubSeq(text, 2, Len(text) - 1)))
    ELSE None

\* type(value).__name__
type_name(value) == value.type

\* ------------------------------------------------------------------ inputs
\* agent_name arguments of MemoryBridge(...), before normalisation
AgentNames == {<<"a">>, <<"B">>}

\* key arguments: a plain key, and the full key of agent A's private entry
Keys == {<<"k">>, <<"A", ":", "k">>}

Scopes == {"agent", "team", "global"}

\* scope=None (argument omitted)
NoScope == "None"

GetScopes == Scopes \cup {NoScope}

\* value arguments of store: a string and a tuple
Values == {PyStr(<<"x">>), PyTuple(<<1>>)}

\* metadata arguments of store
Metadatas == {None}

\* default arguments of get
Defaults == {None}

\* ------------------------------------------------------------------ state
VARIABLES
    table,   \* the memories table: storage key -> row
    now,     \* the last reading of the clock (datetime.now())
    last,    \* the last call: its arguments and what it returned
    calls    \* per instance (one per agent): the call it is in the middle of

vars == <<table, now, last, calls>>

\* ------------------------------------------------------- SQL statements
\* the upsert also setting owner = excluded.owner
Upsert_SetsOwner(t, key, value_json, value_type, scope, owner, created, updated, metadata_json) ==
    [K \in DOMAIN t \cup {key} |->
        IF K # key THEN t[K]
        ELSE IF key \in DOMAIN t
        THEN [t[key] EXCEPT !.value_json = value_json, !.value_type = value_type,
                            !.updated = updated, !.metadata_json = metadata_json,
                            !.owner = owner]
        ELSE [value_json |-> value_json, value_type |-> value_type,
              scope |-> scope, owner |-> owner, created |-> created,
              updated |-> updated, access_count |-> 0,
              metadata_json |-> metadata_json]]

\* INSERT OR REPLACE: the whole row is rewritten
Upsert_Replace(t, key, value_json, value_type, scope, owner, created, updated, metadata_json) ==
    [K \in DOMAIN t \cup {key} |->
        IF K # key THEN t[K]
        ELSE [value_json |-> value_json, value_type |-> value_type,
              scope |-> scope, owner |-> owner, created |-> created,
              updated |-> updated, access_count |-> 0,
              metadata_json |-> metadata_json]]

\* INSERT ... ON CONFLICT(key) DO NOTHING
Upsert_DoNothing(t, key, value_json, value_type, scope, owner, created, updated, metadata_json) ==
    [K \in DOMAIN t \cup {key} |->
        IF K \in DOMAIN t THEN t[K]
        ELSE [value_json |-> value_json, value_type |-> value_type,
              scope |-> scope, owner |-> owner, created |-> created,
              updated |-> updated, access_count |-> 0,
              metadata_json |-> metadata_json]]

\* the upsert with DO UPDATE ... WHERE excluded.updated >= updated: the
\* newest timestamp wins, not the last commit
Upsert_KeepsNewest(t, key, value_json, value_type, scope, owner, created, updated, metadata_json) ==
    [K \in DOMAIN t \cup {key} |->
        IF K # key THEN t[K]
        ELSE IF key \in DOMAIN t
        THEN IF updated >= t[key].updated
             THEN [t[key] EXCEPT !.value_json = value_json, !.value_type = value_type,
                                 !.updated = updated, !.metadata_json = metadata_json]
             ELSE t[key]
        ELSE [value_json |-> value_json, value_type |-> value_type,
              scope |-> scope, owner |-> owner, created |-> created,
              updated |-> updated, access_count |-> 0,
              metadata_json |-> metadata_json]]

\* INSERT ... ON CONFLICT(key) DO UPDATE SET value_json, value_type,
\* updated, metadata_json
Upsert(t, key, value_json, value_type, scope, owner, created, updated, metadata_json) ==
    IF key \in DOMAIN t
    THEN [t EXCEPT ![key] = [@ EXCEPT !.value_json = value_json,
                                      !.value_type = value_type,
                                      !.updated = updated,
                                      !.metadata_json = metadata_json]]
    ELSE [K \in DOMAIN t \cup {key} |->
            IF K = key
            THEN [value_json |-> value_json, value_type |-> value_type,
                  scope |-> scope, owner |-> owner, created |-> created,
                  updated |-> updated, access_count |-> 0,
                  metadata_json |-> metadata_json]
            ELSE t[K]]

\* SELECT value_json, value_type FROM memories WHERE key = ?  (fetchone)
SelectValue(t, key) ==
    IF key \in DOMAIN t THEN <<t[key].value_json, t[key].value_type>> ELSE <<>>

\* the UPDATE with WHERE key = <the prefixed key> only
UpdateAccess_PrefixedOnly(t, key1, key2) ==
    [K \in DOMAIN t |->
        IF K = key1
        THEN [t[K] EXCEPT !.access_count = @ + 1]
        ELSE t[K]]

\* UPDATE memories SET access_count = access_count + 1 WHERE key = ? OR key = ?
UpdateAccess(t, key1, key2) ==
    [K \in DOMAIN t |->
        IF K = key1 \/ K = key2
        THEN [t[K] EXCEPT !.access_count = @ + 1]
        ELSE t[K]]

\* DELETE FROM memories WHERE key LIKE '%' || ?  (every key ending in the key)
DeleteRow_Like(t, key) ==
    [K \in {J \in DOMAIN t :
                ~(Len(J) >= Len(key) /\
                  SubSeq(J, Len(J) - Len(key) + 1, Len(J)) = key)} |-> t[K]]

\* the DELETE never committed
DeleteRow_NoCommit(t, key) == t

\* DELETE FROM memories WHERE key = ?
DeleteRow(t, key) == [K \in DOMAIN t \ {key} |-> t[K]]

\* SELECT SUM(access_count) FROM memories
RECURSIVE SumAccess(_, _)
SumAccess(t, S) ==
    IF S = {} THEN 0
    ELSE LET K == CHOOSE x \in S : TRUE
         IN t[K].access_count + SumAccess(t, S \ {K})

\* SELECT COUNT(access_count) in place of SUM(access_count)
TotalAccesses_Count(t) == Cardinality(DOMAIN t)

\* SELECT SUM(access_count) FROM memories, "or 0" for the NULL of an empty table
TotalAccesses(t) == SumAccess(t, DOMAIN t)

\* SQLite folds ASCII letters before LIKE compares two characters.
LikeFold(c) == UpperChar(c)

\* text LIKE pattern: % matches any run of characters, _ any one character,
\* every other character matches itself, letters without regard to case.
RECURSIVE Like(_, _)
Like(pattern, text) ==
    IF pattern = <<>> THEN text = <<>>
    ELSE IF Head(pattern) = "%"
    THEN Like(Tail(pattern), text) \/ (text # <<>> /\ Like(pattern, Tail(text)))
    ELSE /\ text # <<>>
         /\ Head(pattern) = "_" \/ LikeFold(Head(pattern)) = LikeFold(Head(text))
         /\ Like(Tail(pattern), Tail(text))

\* f'%{query}%'
LikePattern(query) == <<"%">> \o query \o <<"%">>

\* ORDER BY updated ASC
OrderByUpdatedDesc_Asc(t, S) ==
    {order \in [1..Cardinality(S) -> S] :
        /\ \A i, j \in DOMAIN order : i # j => order[i] # order[j]
        /\ \A i, j \in DOMAIN order :
                i < j => t[order[i]].updated <= t[order[j]].updated}

\* ORDER BY updated DESC over the rows with keys S: every order of S in which
\* updated never increases (rows with equal updated come in any order).
OrderByUpdatedDesc(t, S) ==
    {order \in [1..Cardinality(S) -> S] :
        /\ \A i, j \in DOMAIN order : i # j => order[i] # order[j]
        /\ \A i, j \in DOMAIN order :
                i < j => t[order[i]].updated >= t[order[j]].updated}

\* Memory(key=..., value=json.loads(value_json), ...) built from one row
MemoryOf(t, K) ==
    [key |-> K, value |-> json_loads(t[K].value_json), scope |-> t[K].scope,
     owner |-> t[K].owner, created |-> t[K].created, updated |-> t[K].updated,
     access_count |-> t[K].access_count,
     metadata |-> IF t[K].metadata_json = NULL THEN None
                  ELSE json_loads(t[K].metadata_json)]

\* the rows search selects: WHERE (key LIKE ? OR value_json LIKE ?) [AND scope = ?]
SearchRows(t, query, scope) ==
    {K \in DOMAIN t :
        /\ Like(LikePattern(query), K) \/ Like(LikePattern(query), t[K].value_json)
        /\ scope # "None" => t[K].scope = scope}

\* the rows list_all selects: WHERE 1=1 [AND scope = ?] [AND owner = ?]
ListRows(t, scope, owner) ==
    {K \in DOMAIN t :
        /\ scope # "None" => t[K].scope = scope
        /\ owner # <<>> => t[K].owner = owner}

\* SELECT scope, COUNT(*) FROM memories GROUP BY scope, as a dict
CountByScope(t) ==
    [s \in {t[K].scope : K \in DOMAIN t} |->
        Cardinality({K \in DOMAIN t : t[K].scope = s})]

\* SELECT owner, COUNT(*) FROM memories GROUP BY owner, as a dict
CountByOwner(t) ==
    [o \in {t[K].owner : K \in DOMAIN t} |->
        Cardinality({K \in DOMAIN t : t[K].owner = o})]

\* ------------------------------------------------------------ operations
\* f"{self.agent_name}:{key}"
Prefixed(agent_name, key) == agent_name \o <<":">> \o key

\* store never prefixing the key
StoreKey_NeverPrefixed(agent_name, key, scope) == key

\* store, delete: the storage key
StoreKey(agent_name, key, scope) ==
    IF scope = "agent" THEN Prefixed(agent_name, key) ELSE key

\* get: the key probed first
GetPrefixedKey(agent_name, key, scope) ==
    IF scope = "agent" \/ scope = NoScope THEN Prefixed(agent_name, key) ELSE key

\* get probing the unprefixed key before the prefixed one
GetMatchedKey_UnprefixedFirst(t, agent_name, key, scope) ==
    LET prefixed_key == GetPrefixedKey(agent_name, key, scope)
    IN IF scope = NoScope /\ SelectValue(t, key) # <<>> THEN key
       ELSE IF SelectValue(t, prefixed_key) # <<>> THEN prefixed_key
       ELSE <<>>

\* get falling back to the unprefixed key for scope="agent" too
GetMatchedKey_AgentFallsBack(t, agent_name, key, scope) ==
    LET prefixed_key == GetPrefixedKey(agent_name, key, scope)
    IN IF SelectValue(t, prefixed_key) # <<>> THEN prefixed_key
       ELSE IF scope \in {NoScope, "agent"} /\ SelectValue(t, key) # <<>> THEN key
       ELSE <<>>

\* get without the fallback probe
GetMatchedKey_NoFallback(t, agent_name, key, scope) ==
    LET prefixed_key == GetPrefixedKey(agent_name, key, scope)
    IN IF SelectValue(t, prefixed_key) # <<>> THEN prefixed_key
       ELSE <<>>

\* get: the storage key of the row fetched, <<>> when every probe misses
GetMatchedKey(t, agent_name, key, scope) ==
    LET prefixed_key == GetPrefixedKey(agent_name, key, scope)
    IN IF SelectValue(t, prefixed_key) # <<>> THEN prefixed_key
       ELSE IF scope = NoScope /\ SelectValue(t, key) # <<>> THEN key
       ELSE <<>>

\* get: the row fetched, <<>> when every probe misses
GetRow(t, agent_name, key, scope) ==
    LET matched == GetMatchedKey(t, agent_name, key, scope)
    IN IF matched = <<>> THEN <<>> ELSE SelectValue(t, matched)

Init ==
    /\ table = <<>>
    /\ now = 0
    /\ last = [op |-> "init"]
    /\ calls = [agent \in AgentNames |-> [pc |-> "idle"]]

store(agent, key, value, scope, metadata, t) ==
    LET agent_name == upper(agent)
        skey == StoreKey(agent_name, key, scope)
        value_json == json_dumps(value)
        value_type == type_name(value)
        metadata_json == IF metadata = None THEN NULL ELSE json_dumps(metadata)
    IN /\ key # <<>>
       /\ scope \in {"agent", "team", "global"}
       /\ skey \in DOMAIN table \/ Cardinality(DOMAIN table) < MaxEntries
       /\ t >= now
       /\ now' = t
       /\ table' = Upsert(table, skey, value_json, value_type, scope,
                          agent_name, t, t, metadata_json)
       /\ last' = [op |-> "store", agent |-> agent_name, key |-> key,
                   scope |-> scope, value |-> value, ret |-> TRUE]

get(agent, key, scope, default) ==
    LET agent_name == upper(agent)
        prefixed_key == GetPrefixedKey(agent_name, key, scope)
        row == GetRow(table, agent_name, key, scope)
        t2 == UpdateAccess(table, prefixed_key, key)
    IN /\ IF row # <<>>
          THEN /\ \A K \in DOMAIN t2 : t2[K].access_count <= MaxAccess
               /\ table' = t2
               /\ last' = [op |-> "get", agent |-> agent_name, key |-> key,
                           scope |-> scope, default |-> default,
                           ret |-> json_loads(row[1])]
          ELSE /\ table' = table
               /\ last' = [op |-> "get", agent |-> agent_name, key |-> key,
                           scope |-> scope, default |-> default,
                           ret |-> default]
       /\ UNCHANGED now

delete(agent, key, scope) ==
    LET agent_name == upper(agent)
        skey == StoreKey(agent_name, key, scope)
    IN /\ table' = DeleteRow(table, skey)
       /\ last' = [op |-> "delete", agent |-> agent_name, key |-> key,
                   scope |-> scope, ret |-> (skey \in DOMAIN table)]
       /\ UNCHANGED now

\* calls made one at a time: no instance is ever in the middle of a call
Next ==
    \/ \E agent \in AgentNames, key \in Keys, value \in Values, scope \in Scopes,
          metadata \in Metadatas, t \in 0..MaxClock :
            store(agent, key, value, scope, metadata, t) /\ UNCHANGED calls
    \/ \E agent \in AgentNames, key \in Keys, scope \in GetScopes,
          default \in Defaults : get(agent, key, scope, default) /\ UNCHANGED calls
    \/ \E agent \in AgentNames, key \in Keys, scope \in GetScopes :
          delete(agent, key, scope) /\ UNCHANGED calls

Spec == Init /\ [][Next]_vars

\* ---------------------------------------------------------------- queries
\* query arguments of search: a value, a letter in the other case than the
\* stored keys have it, and a LIKE wildcard
Queries == {<<"x">>, <<"a">>, <<"_">>}

\* owner arguments of list_all; <<>> is owner=None (or "")
Owners == {<<>>, <<"A">>}

\* key arguments of the calls made between the queries
QueryKeys == {<<"k">>}

\* scope arguments of the get calls made between the queries
QueryGetScopes == {NoScope}

\* scope arguments of the delete calls made between the queries
QueryDeleteScopes == {"agent", NoScope}

\* key arguments store rejects or accepts, as Python values: "", None, "k"
StoreKeyArgs == {PyStr(<<>>), None, PyStr(<<"k">>)}

\* scope arguments of store, valid or not
StoreScopeArgs == Scopes \cup {"bad"}

\* search answering with a side effect: it counts an access on every row found
search_CountsAccess(query, scope) ==
    LET rows == SearchRows(table, query, scope)
    IN \E order \in OrderByUpdatedDesc(table, rows) :
        /\ \A K \in rows : table[K].access_count < MaxAccess
        /\ table' = [K \in DOMAIN table |->
                        IF K \in rows
                        THEN [table[K] EXCEPT !.access_count = @ + 1]
                        ELSE table[K]]
        /\ last' = [op |-> "search", query |-> query, scope |-> scope,
                    ret |-> [i \in DOMAIN order |-> MemoryOf(table, order[i])]]
        /\ UNCHANGED now

search(query, scope) ==
    LET rows == SearchRows(table, query, scope)
    IN \E order \in OrderByUpdatedDesc(table, rows) :
        /\ last' = [op |-> "search", query |-> query, scope |-> scope,
                    ret |-> [i \in DOMAIN order |-> MemoryOf(table, order[i])]]
        /\ UNCHANGED <<table, now>>

list_all(scope, owner) ==
    LET rows == ListRows(table, scope, owner)
    IN \E order \in OrderByUpdatedDesc(table, rows) :
        /\ last' = [op |-> "list_all", scope |-> scope, owner |-> owner,
                    ret |-> [i \in DOMAIN order |-> MemoryOf(table, order[i])]]
        /\ UNCHANGED <<table, now>>

get_stats ==
    /\ last' = [op |-> "get_stats",
                ret |-> [total_memories |-> Cardinality(DOMAIN table),
                         by_scope |-> CountByScope(table),
                         by_owner |-> CountByOwner(table),
                         total_accesses |-> TotalAccesses(table)]]
    /\ UNCHANGED <<table, now>>

\* store validating its arguments only after the upsert
store_call_ValidatesLate(agent, key, value, scope, metadata, t) ==
    IF key.type # "str" \/ key.s = <<>> \/ scope \notin {"agent", "team", "global"}
    THEN /\ table' = IF key.type = "str"
                     THEN Upsert(table, StoreKey(upper(agent), key.s, scope),
                                 json_dumps(value), type_name(value), scope,
                                 upper(agent), t, t, NULL)
                     ELSE table
         /\ last' = [op |-> "store", agent |-> upper(agent), key |-> key,
                     scope |-> scope, value |-> value, raised |-> "ValueError"]
         /\ UNCHANGED now
    ELSE store(agent, key.s, value, scope, metadata, t)

\* store called with any key and scope: the two checks raise ValueError
\* before the value is serialised, the clock read or the database opened.
store_call(agent, key, value, scope, metadata, t) ==
    IF key.type # "str" \/ key.s = <<>> \/ scope \notin {"agent", "team", "global"}
    THEN /\ last' = [op |-> "store", agent |-> upper(agent), key |-> key,
                     scope |-> scope, value |-> value, raised |-> "ValueError"]
         /\ UNCHANGED <<table, now>>
    ELSE store(agent, key.s, value, scope, metadata, t)

NextQuery ==
    \/ \E agent \in AgentNames, key \in QueryKeys, value \in Values,
          scope \in Scopes, metadata \in Metadatas, t \in 0..MaxClock :
            store(agent, key, value, scope, metadata, t) /\ UNCHANGED calls
    \/ \E agent \in AgentNames, key \in QueryKeys, scope \in QueryGetScopes,
          default \in Defaults : get(agent, key, scope, default) /\ UNCHANGED calls
    \/ \E agent \in AgentNames, key \in QueryKeys, scope \in QueryDeleteScopes :
          delete(agent, key, scope) /\ UNCHANGED calls
    \/ \E query \in Queries, scope \in GetScopes : search(query, scope) /\ UNCHANGED calls
    \/ \E scope \in GetScopes, owner \in Owners : list_all(scope, owner) /\ UNCHANGED calls
    \/ get_stats /\ UNCHANGED calls

SpecQuery == Init /\ [][NextQuery]_vars

\* store called with valid and invalid arguments
NextStore ==
    \/ \E agent \in AgentNames, key \in StoreKeyArgs, value \in Values,
          scope \in StoreScopeArgs, metadata \in Metadatas, t \in 0..MaxClock :
            store_call(agent, key, value, scope, metadata, t) /\ UNCHANGED calls
    \/ \E agent \in AgentNames, key \in QueryKeys, scope \in QueryGetScopes,
          default \in Defaults : get(agent, key, scope, default) /\ UNCHANGED calls
    \/ \E agent \in AgentNames, key \in QueryKeys, scope \in QueryDeleteScopes :
          delete(agent, key, scope) /\ UNCHANGED calls

SpecStore == Init /\ [][NextStore]_vars

\* ------------------------------------------------------- concurrent calls
\* Several instances share the database file. Each statement a call executes
\* (with its commit) is one step; between the steps of one instance's call the
\* other instance's statements may run.

\* scope arguments of the concurrent store calls: the shared entry "k"
ConcStoreScopes == {"team"}

\* scope arguments of the concurrent get calls: fallback probe, direct probe
ConcGetScopes == {NoScope, "team"}

\* scope arguments of the concurrent delete calls
ConcDeleteScopes == {NoScope}

Idle == [pc |-> "idle"]

\* store up to the upsert: validation, key, serialisation, datetime.now()
store_begin(agent, key, value, scope, metadata, t) ==
    /\ calls[agent].pc = "idle"
    /\ key # <<>>
    /\ scope \in {"agent", "team", "global"}
    /\ t >= now
    /\ now' = t
    /\ calls' = [calls EXCEPT ![agent] =
                    [pc |-> "store_upsert", key |-> key, scope |-> scope,
                     value |-> value,
                     skey |-> StoreKey(upper(agent), key, scope),
                     value_json |-> json_dumps(value),
                     value_type |-> type_name(value),
                     metadata_json |-> IF metadata = None THEN NULL
                                       ELSE json_dumps(metadata),
                     now |-> t]]
    /\ UNCHANGED <<table, last>>

\* store: the upsert and its commit, then return True
store_upsert(agent) ==
    LET c == calls[agent]
    IN /\ c.pc = "store_upsert"
       /\ c.skey \in DOMAIN table \/ Cardinality(DOMAIN table) < MaxEntries
       /\ table' = Upsert(table, c.skey, c.value_json, c.value_type, c.scope,
                          upper(agent), c.now, c.now, c.metadata_json)
       /\ last' = [op |-> "store", agent |-> upper(agent), key |-> c.key,
                   scope |-> c.scope, value |-> c.value, ret |-> TRUE]
       /\ calls' = [calls EXCEPT ![agent] = Idle]
       /\ UNCHANGED now

\* get: the first SELECT; on a miss with an explicit scope, return default
get_select(agent, key, scope, default) ==
    LET prefixed_key == GetPrefixedKey(upper(agent), key, scope)
        row == SelectValue(table, prefixed_key)
        c == [key |-> key, scope |-> scope, default |-> default,
              prefixed_key |-> prefixed_key]
    IN /\ calls[agent].pc = "idle"
       /\ IF row # <<>>
          THEN /\ calls' = [calls EXCEPT ![agent] =
                    c @@ [pc |-> "get_update", matched |-> prefixed_key, row |-> row]]
               /\ UNCHANGED last
          ELSE IF scope = NoScope
          THEN /\ calls' = [calls EXCEPT ![agent] = c @@ [pc |-> "get_select2"]]
               /\ UNCHANGED last
          ELSE /\ last' = [op |-> "get", agent |-> upper(agent), key |-> key,
                           scope |-> scope, default |-> default, ret |-> default]
               /\ UNCHANGED calls
       /\ UNCHANGED <<table, now>>

\* get: the second SELECT, on the unprefixed key; on a miss, return default
get_select2(agent) ==
    LET c == calls[agent]
        row == SelectValue(table, c.key)
    IN /\ c.pc = "get_select2"
       /\ IF row # <<>>
          THEN /\ calls' = [calls EXCEPT ![agent] =
                    [pc |-> "get_update", key |-> c.key, scope |-> c.scope,
                     default |-> c.default, prefixed_key |-> c.prefixed_key,
                     matched |-> c.key, row |-> row]]
               /\ UNCHANGED last
          ELSE /\ last' = [op |-> "get", agent |-> upper(agent), key |-> c.key,
                           scope |-> c.scope, default |-> c.default,
                           ret |-> c.default]
               /\ calls' = [calls EXCEPT ![agent] = Idle]
       /\ UNCHANGED <<table, now>>

\* get reading the row again after the UPDATE and returning what it holds now
get_update_ReturnsCurrent(agent) ==
    LET c == calls[agent]
        t2 == UpdateAccess(table, c.prefixed_key, c.key)
    IN /\ c.pc = "get_update"
       /\ \A K \in DOMAIN t2 : t2[K].access_count <= MaxAccess
       /\ table' = t2
       /\ last' = [op |-> "get", agent |-> upper(agent), key |-> c.key,
                   scope |-> c.scope, default |-> c.default,
                   ret |-> IF c.matched \in DOMAIN t2
                           THEN json_loads(t2[c.matched].value_json)
                           ELSE c.default]
       /\ calls' = [calls EXCEPT ![agent] = Idle]
       /\ UNCHANGED now

\* get: the UPDATE of access_count and its commit, then return the value of
\* the row fetched earlier
get_update(agent) ==
    LET c == calls[agent]
        t2 == UpdateAccess(table, c.prefixed_key, c.key)
    IN /\ c.pc = "get_update"
       /\ \A K \in DOMAIN t2 : t2[K].access_count <= MaxAccess
       /\ table' = t2
       /\ last' = [op |-> "get", agent |-> upper(agent), key |-> c.key,
                   scope |-> c.scope, default |-> c.default,
                   ret |-> json_loads(c.row[1])]
       /\ calls' = [calls EXCEPT ![agent] = Idle]
       /\ UNCHANGED now

\* delete: one DELETE statement and its commit
delete_call(agent, key, scope) ==
    /\ calls[agent].pc = "idle"
    /\ delete(agent, key, scope)
    /\ UNCHANGED calls

NextConc ==
    \/ \E agent \in AgentNames, key \in QueryKeys, value \in Values,
          scope \in ConcStoreScopes, metadata \in Metadatas, t \in 0..MaxClock :
            store_begin(agent, key, value, scope, metadata, t)
    \/ \E agent \in AgentNames : store_upsert(agent)
    \/ \E agent \in AgentNames, key \in QueryKeys, scope \in ConcGetScopes,
          default \in Defaults : get_select(agent, key, scope, default)
    \/ \E agent \in AgentNames : get_select2(agent)
    \/ \E agent \in AgentNames : get_update(agent)
    \/ \E agent \in AgentNames, key \in QueryKeys, scope \in ConcDeleteScopes :
          delete_call(agent, key, scope)

SpecConc == Init /\ [][NextConc]_vars

\* get_stats, statement by statement: its four SELECTs run on one connection
\* outside any transaction, so each reads the table as last committed.

\* get_stats: SELECT COUNT(*) FROM memories
stats_total(agent) ==
    /\ calls[agent].pc = "idle"
    /\ calls' = [calls EXCEPT ![agent] =
                    [pc |-> "stats_by_scope",
                     total |-> Cardinality(DOMAIN table)]]
    /\ UNCHANGED <<table, now, last>>

\* get_stats: SELECT scope, COUNT(*) ... GROUP BY scope
stats_by_scope(agent) ==
    /\ calls[agent].pc = "stats_by_scope"
    /\ calls' = [calls EXCEPT ![agent] =
                    [pc |-> "stats_by_owner", total |-> calls[agent].total,
                     by_scope |-> CountByScope(table)]]
    /\ UNCHANGED <<table, now, last>>

\* get_stats: SELECT owner, COUNT(*) ... GROUP BY owner
stats_by_owner(agent) ==
    /\ calls[agent].pc = "stats_by_owner"
    /\ calls' = [calls EXCEPT ![agent] =
                    [pc |-> "stats_accesses", total |-> calls[agent].total,
                     by_scope |-> calls[agent].by_scope,
                     by_owner |-> CountByOwner(table)]]
    /\ UNCHANGED <<table, now, last>>

\* get_stats: SELECT SUM(access_count), then return the dict
stats_accesses(agent) ==
    /\ calls[agent].pc = "stats_accesses"
    /\ last' = [op |-> "get_stats",
                ret |-> [total_memories |-> calls[agent].total,
                         by_scope |-> calls[agent].by_scope,
                         by_owner |-> calls[agent].by_owner,
                         total_accesses |-> TotalAccesses(table)]]
    /\ calls' = [calls EXCEPT ![agent] = Idle]
    /\ UNCHANGED <<table, now>>

NextStats ==
    \/ \E agent \in AgentNames, key \in QueryKeys, value \in Values,
          scope \in ConcStoreScopes, metadata \in Metadatas, t \in 0..MaxClock :
            store_begin(agent, key, value, scope, metadata, t)
    \/ \E agent \in AgentNames : store_upsert(agent)
    \/ \E agent \in AgentNames, key \in QueryKeys, scope \in ConcDeleteScopes :
          delete_call(agent, key, scope)
    \/ \E agent \in AgentNames : stats_total(agent)
    \/ \E agent \in AgentNames : stats_by_scope(agent)
    \/ \E agent \in AgentNames : stats_by_owner(agent)
    \/ \E agent \in AgentNames : stats_accesses(agent)

SpecStats == Init /\ [][NextStats]_vars

\* ------------------------------------------------------------ command line
\* --agent arguments
CliAgents == {<<"a">>}

\* --key arguments; <<>> is the option left out (or empty)
CliKeys == {<<>>, <<"k">>}

\* --value arguments, JSON texts: left out, "x", null
CliValues == {<<>>, <<"\"", "x", "\"">>, <<"n", "u", "l", "l">>}

\* --query arguments; <<>> is the option left out (or empty)
CliQueries == {<<>>, <<"x">>}

\* main() for one command line: the exit status is what main returns.
\* db_error: the database raises sqlite3.Error under store's upsert.
main(command, agent, key, value, scope, query, t, db_error) ==
    LET agent_name == upper(agent)
        args == [op |-> "main", command |-> command, agent |-> agent_name,
                 key |-> key, value |-> value, scope |-> scope, query |-> query]
    IN CASE command = "store" ->
              IF key = <<>> \/ value = <<>>
              THEN /\ last' = args @@ [called |-> FALSE, exit |-> 1]
                   /\ UNCHANGED <<table, now>>
              ELSE LET v == json_loads(value)
                       skey == StoreKey(agent_name, key, scope)
                   IN /\ skey \in DOMAIN table \/ Cardinality(DOMAIN table) < MaxEntries
                      /\ t >= now
                      /\ now' = t
                      /\ table' = IF db_error THEN table
                                  ELSE Upsert(table, skey, json_dumps(v), type_name(v),
                                              scope, agent_name, t, t, NULL)
                      /\ last' = args @@ [called |-> TRUE, ret |-> ~db_error,
                                          exit |-> 0]
         [] command = "get" ->
              IF key = <<>>
              THEN /\ last' = args @@ [called |-> FALSE, exit |-> 1]
                   /\ UNCHANGED <<table, now>>
              ELSE LET row == GetRow(table, agent_name, key, scope)
                       t2 == UpdateAccess(table, GetPrefixedKey(agent_name, key, scope), key)
                       v == IF row # <<>> THEN json_loads(row[1]) ELSE None
                   IN /\ row # <<>> => \A K \in DOMAIN t2 : t2[K].access_count <= MaxAccess
                      /\ table' = IF row # <<>> THEN t2 ELSE table
                      /\ last' = args @@ [called |-> TRUE, ret |-> v,
                                          exit |-> IF v # None THEN 0 ELSE 1]
                      /\ UNCHANGED now
         [] command = "search" ->
              /\ last' = IF query = <<>>
                         THEN args @@ [called |-> FALSE, exit |-> 1]
                         ELSE args @@ [called |-> TRUE, exit |-> 0,
                                       ret |-> Cardinality(SearchRows(table, query, scope))]
              /\ UNCHANGED <<table, now>>
         [] command = "list" ->
              /\ last' = args @@ [called |-> TRUE, exit |-> 0,
                                  ret |-> Cardinality(ListRows(table, scope, <<>>))]
              /\ UNCHANGED <<table, now>>
         [] command = "delete" ->
              IF key = <<>>
              THEN /\ last' = args @@ [called |-> FALSE, exit |-> 1]
                   /\ UNCHANGED <<table, now>>
              ELSE LET skey == StoreKey(agent_name, key, scope)
                   IN /\ table' = DeleteRow(table, skey)
                      /\ last' = args @@ [called |-> TRUE, exit |-> 0,
                                          ret |-> (skey \in DOMAIN table)]
                      /\ UNCHANGED now
         [] command = "stats" ->
              /\ last' = args @@ [called |-> TRUE, exit |-> 0,
                                  ret |-> Cardinality(DOMAIN table)]
              /\ UNCHANGED <<table, now>>

\* one disjunct per subcommand; the options a subcommand ignores are left out
NextCli ==
    \/ \E agent \in CliAgents, key \in CliKeys, value \in CliValues,
          scope \in Scopes, t \in 0..MaxClock, db_error \in BOOLEAN :
            main("store", agent, key, value, scope, <<>>, t, db_error)
                /\ UNCHANGED calls
    \/ \E agent \in CliAgents, key \in CliKeys, scope \in Scopes :
            main("get", agent, key, <<>>, scope, <<>>, 0, FALSE) /\ UNCHANGED calls
    \/ \E agent \in CliAgents, query \in CliQueries, scope \in Scopes :
            main("search", agent, <<>>, <<>>, scope, query, 0, FALSE) /\ UNCHANGED calls
    \/ \E agent \in CliAgents, scope \in Scopes :
            main("list", agent, <<>>, <<>>, scope, <<>>, 0, FALSE) /\ UNCHANGED calls
    \/ \E agent \in CliAgents, key \in CliKeys, scope \in Scopes :
            main("delete", agent, key, <<>>, scope, <<>>, 0, FALSE) /\ UNCHANGED calls
    \/ \E agent \in CliAgents :
            main("stats", agent, <<>>, <<>>, "agent", <<>>, 0, FALSE) /\ UNCHANGED calls

SpecCli == Init /\ [][NextCli]_vars

\* ------------------------------------------------------------------ claims
\* The value an entry holds, as get hands it out.
EntryValue(K) == json_loads(table[K].value_json)

\* The storage key the interface documents for (agent, key, scope):
\* "N:key" for scope agent, the key itself otherwise.
DocumentedKey(agent_name, key, scope) ==
    IF scope = "agent" THEN agent_name \o <<":">> \o key ELSE key

\* C1: an unscoped get(k) by agent N returns the value of entry "N:k" if it
\* exists, otherwise the value of entry "k" if it exists, otherwise the default.
C1_UnscopedResolutionOrder ==
    (last.op = "get" /\ last.scope = NoScope) =>
        LET own == DocumentedKey(last.agent, last.key, "agent")
        IN last.ret = IF own \in DOMAIN table THEN EntryValue(own)
                      ELSE IF last.key \in DOMAIN table THEN EntryValue(last.key)
                      ELSE last.default

\* An unscoped get answered from "N:k" while a different value sits under "k".
C1_Witness ==
    /\ last.op = "get"
    /\ last.scope = NoScope
    /\ LET own == DocumentedKey(last.agent, last.key, "agent")
       IN /\ own \in DOMAIN table
          /\ last.key \in DOMAIN table
          /\ EntryValue(own) # EntryValue(last.key)
          /\ last.ret = EntryValue(own)

\* C4: get(k, scope="agent") by agent NB returns the default whenever entry
\* "NB:k" does not exist, whatever else the table holds; and when it does return
\* a value, the entry read is "NB:k", which no agent-scope store of another agent
\* targets.
C4_NoFallbackOnAgentScope ==
    (last.op = "get" /\ last.scope = "agent") =>
        LET own == DocumentedKey(last.agent, last.key, "agent")
        IN /\ own \notin DOMAIN table => last.ret = last.default
           /\ own \in DOMAIN table =>
                /\ last.ret = EntryValue(own)
                /\ \A a \in AgentNames, k \in Keys :
                      upper(a) # last.agent =>
                         DocumentedKey(upper(a), k, "agent") # own

\* B's get(k, "agent") returned the default although "k" and another agent's
\* private "NA:k" both exist.
C4_Witness ==
    /\ last.op = "get"
    /\ last.scope = "agent"
    /\ last.ret = last.default
    /\ last.key \in DOMAIN table
    /\ \E a \in AgentNames :
          /\ upper(a) # last.agent
          /\ DocumentedKey(upper(a), last.key, "agent") \in DOMAIN table
          /\ table[DocumentedKey(upper(a), last.key, "agent")].scope = "agent"

\* C5 as stated: whenever a private entry "NA:k" exists, an unscoped
\* get("NA:k") by any agent returns its value, in every table state.
C5_FullKeyAlwaysWorks ==
    (/\ last.op = "get"
     /\ last.scope = NoScope
     /\ last.key \in DOMAIN table
     /\ table[last.key].scope = "agent") =>
        last.ret = EntryValue(last.key)

\* C5 amended: whenever a private entry "NA:k" exists, an unscoped
\* get("NA:k") by agent NB returns its value, provided no entry "NB:NA:k"
\* exists (the caller's own prefixed probe comes first).
C5_FullKeyUnlessShadowed ==
    (/\ last.op = "get"
     /\ last.scope = NoScope
     /\ last.key \in DOMAIN table
     /\ table[last.key].scope = "agent"
     /\ DocumentedKey(last.agent, last.key, "agent") \notin DOMAIN table) =>
        last.ret = EntryValue(last.key)

\* Another agent read a private entry through its full key.
C5_Witness ==
    /\ last.op = "get"
    /\ last.scope = NoScope
    /\ last.key \in DOMAIN table
    /\ table[last.key].scope = "agent"
    /\ table[last.key].owner # last.agent
    /\ DocumentedKey(last.agent, last.key, "agent") \notin DOMAIN table
    /\ last.ret = EntryValue(last.key)

\* A value as JSON hands it back: a tuple comes back as a list.
AsJson(value) ==
    IF value.type = "tuple" THEN [type |-> "list", items |-> value.items] ELSE value

\* C2 as stated: store(k, v, s) immediately followed by get(k, s) from the same
\* agent returns v, for every serializable v.
C2_RoundTrip ==
    [][(/\ last.op = "store" /\ last.ret
        /\ last'.op = "get"
        /\ last'.agent = last.agent
        /\ last'.key = last.key
        /\ last'.scope = last.scope) => last'.ret = last.value]_vars

\* C2 amended: store(k, v, s) immediately followed by get(k, s) from the same
\* agent returns v as JSON represents it: v itself, except that a tuple is
\* returned as the list of its items.
C2_RoundTripAsJson ==
    [][(/\ last.op = "store" /\ last.ret
        /\ last'.op = "get"
        /\ last'.agent = last.agent
        /\ last'.key = last.key
        /\ last'.scope = last.scope) => last'.ret = AsJson(last.value)]_vars

\* get(k, s) returned a list from an entry stored once, as a tuple, under
\* (k, s) by the same agent, and read once.
C2_Witness ==
    /\ last.op = "get"
    /\ last.scope \in Scopes
    /\ LET K == DocumentedKey(last.agent, last.key, last.scope)
       IN /\ K \in DOMAIN table
          /\ table[K].value_type = "tuple"
          /\ table[K].owner = last.agent
          /\ table[K].scope = last.scope
          /\ table[K].created = table[K].updated
          /\ table[K].access_count = 1
          /\ last.ret = [type |-> "list", items |-> <<1>>]

\* C3 as stated (v read as JSON hands it back): right after any agent's
\* store(k, v, s) with s team or global, an unscoped get(k) by any agent
\* returns v, whatever other entries exist.
C3_SharedWithEveryAgent ==
    [][(/\ last.op = "store" /\ last.ret
        /\ last.scope \in {"team", "global"}
        /\ last'.op = "get"
        /\ last'.scope = NoScope
        /\ last'.key = last.key) => last'.ret = AsJson(last.value)]_vars

\* a store or delete call that targets storage key K
Targets(call, K) ==
    /\ call.op \in {"store", "delete"}
    /\ DocumentedKey(call.agent, call.key, call.scope) = K

\* C3 amended: a team/global store(k, v, s) leaves v (as JSON) in entry "k";
\* no call other than a store or delete targeting "k" changes or removes that
\* value; and an unscoped get(k) by agent N returns the value of entry "k"
\* provided no entry "N:k" exists.
C3_SharedUnlessShadowed ==
    /\ []((last.op = "store" /\ last.scope \in {"team", "global"}) =>
            (last.key \in DOMAIN table /\ EntryValue(last.key) = AsJson(last.value)))
    /\ [][\A K \in DOMAIN table :
            ~Targets(last', K) =>
                (K \in DOMAIN table' /\ table'[K].value_json = table[K].value_json)]_vars
    /\ []((/\ last.op = "get"
           /\ last.scope = NoScope
           /\ last.key \in DOMAIN table
           /\ DocumentedKey(last.agent, last.key, "agent") \notin DOMAIN table) =>
            last.ret = EntryValue(last.key))

\* An agent read, unscoped, a team/global entry that another agent created.
C3_Witness ==
    /\ last.op = "get"
    /\ last.scope = NoScope
    /\ last.key \in DOMAIN table
    /\ table[last.key].scope \in {"team", "global"}
    /\ table[last.key].owner # last.agent
    /\ DocumentedKey(last.agent, last.key, "agent") \notin DOMAIN table
    /\ last.ret = EntryValue(last.key)

\* C6: a get that finds an entry raises that entry's access_count by exactly 1,
\* whichever probe matched, so the sum of access_count grows by at least 1; a
\* store never lowers the sum.
C6_MatchedEntryCounted ==
    [][/\ last'.op = "get" =>
            LET m == GetMatchedKey(table, last'.agent, last'.key, last'.scope)
            IN m # <<>> =>
                /\ last'.ret = EntryValue(m)
                /\ table'[m].access_count = table[m].access_count + 1
                /\ TotalAccesses(table') >= TotalAccesses(table) + 1
       /\ last'.op = "store" => TotalAccesses(table') >= TotalAccesses(table)]_vars

\* An unscoped get answered by the fallback probe, whose entry has been counted.
C6_Witness ==
    /\ last.op = "get"
    /\ last.scope = NoScope
    /\ DocumentedKey(last.agent, last.key, "agent") \notin DOMAIN table
    /\ last.key \in DOMAIN table
    /\ table[last.key].access_count = 1
    /\ last.ret = EntryValue(last.key)

\* C7 as stated: a get changes nothing but the access_count of the one entry
\* it resolved to (+1), and a get that misses changes nothing.
C7_GetFrame ==
    [][last'.op = "get" =>
        LET m == GetMatchedKey(table, last'.agent, last'.key, last'.scope)
        IN table' = IF m = <<>> THEN table
                    ELSE [table EXCEPT ![m].access_count = @ + 1]]_vars

\* C8 as stated: after a store by agent A to storage key K, entry K's owner is A.
C8_OwnerIsLastWriter ==
    (last.op = "store" /\ last.ret) =>
        table[DocumentedKey(last.agent, last.key, last.scope)].owner = last.agent

\* C8 amended: a store that creates entry K sets its owner to the storing
\* agent's uppercased identity; a store that overwrites entry K leaves its owner
\* unchanged, so the owner is the agent that created the entry.
C8_OwnerIsCreator ==
    [][(last'.op = "store" /\ last'.ret) =>
        LET K == DocumentedKey(last'.agent, last'.key, last'.scope)
        IN table'[K].owner = IF K \in DOMAIN table THEN table[K].owner
                             ELSE last'.agent]_vars

\* An agent overwrote an entry that another agent created.
C8_Witness ==
    /\ last.op = "store"
    /\ LET K == DocumentedKey(last.agent, last.key, last.scope)
       IN /\ table[K].owner # last.agent
          /\ table[K].value_json = json_dumps(last.value)
          /\ table[K].updated > table[K].created

\* C9: a store to a storage key that already has an entry keeps the entry's
\* created and access_count, replaces its value, does not lower its updated
\* (the clock does not go back), and adds no entry.
C9_UpsertPreserves ==
    [][(last'.op = "store" /\ last'.ret) =>
        LET K == DocumentedKey(last'.agent, last'.key, last'.scope)
        IN K \in DOMAIN table =>
            /\ table'[K].created = table[K].created
            /\ table'[K].access_count = table[K].access_count
            /\ json_loads(table'[K].value_json) = AsJson(last'.value)
            /\ table'[K].updated >= table[K].updated
            /\ DOMAIN table' = DOMAIN table]_vars

\* An entry that was read, then overwritten at a later clock reading with
\* another value.
C9_Witness ==
    /\ last.op = "store"
    /\ LET K == DocumentedKey(last.agent, last.key, last.scope)
       IN /\ table[K].access_count >= 1
          /\ table[K].updated > table[K].created
          /\ table[K].value_type = "tuple"
          /\ last.value.type = "tuple"

\* C10 as stated: store(k, v1, s1) followed by store(k, v2, s2), s1 # s2, leaves
\* two distinct entries, one with scope s1 holding v1, one with scope s2
\* holding v2.
C10_ScopesIndependent ==
    [][(/\ last.op = "store" /\ last.ret
        /\ last'.op = "store" /\ last'.ret
        /\ last'.agent = last.agent
        /\ last'.key = last.key
        /\ last'.scope # last.scope) =>
        \E K1, K2 \in DOMAIN table' :
            /\ K1 # K2
            /\ table'[K1].scope = last.scope
            /\ json_loads(table'[K1].value_json) = AsJson(last.value)
            /\ table'[K2].scope = last'.scope
            /\ json_loads(table'[K2].value_json) = AsJson(last'.value)]_vars

\* C10 amended: when one of s1, s2 is agent, the two stores leave two distinct
\* entries, "N:k" and "k", holding v1 and v2, and the second store leaves the
\* first entry untouched; an entry's scope field is the scope of the store that
\* created it. When s1, s2 are team and global, both stores target "k": the
\* second overwrites the value of the first, adds no entry and leaves the scope
\* field as it was.
C10_ScopesIndependentIfOneIsAgent ==
    [][(/\ last.op = "store" /\ last.ret
        /\ last'.op = "store" /\ last'.ret
        /\ last'.agent = last.agent
        /\ last'.key = last.key
        /\ last'.scope # last.scope) =>
        LET K1 == DocumentedKey(last.agent, last.key, last.scope)
            K2 == DocumentedKey(last'.agent, last'.key, last'.scope)
        IN /\ {K1, K2} \subseteq DOMAIN table'
           /\ json_loads(table'[K2].value_json) = AsJson(last'.value)
           /\ table'[K2].scope = IF K2 \in DOMAIN table THEN table[K2].scope
                                 ELSE last'.scope
           /\ "agent" \in {last.scope, last'.scope} =>
                /\ K1 # K2
                /\ table'[K1] = table[K1]
                /\ json_loads(table'[K1].value_json) = AsJson(last.value)
           /\ "agent" \notin {last.scope, last'.scope} =>
                /\ K1 = K2
                /\ DOMAIN table' = DOMAIN table
                /\ table'[K1].scope = table[K1].scope]_vars

\* An agent holds "N:k" with scope agent and "k" with scope team, with
\* different values, the team one stored last.
C10_Witness ==
    /\ last.op = "store"
    /\ last.scope = "team"
    /\ LET K1 == DocumentedKey(last.agent, last.key, "agent")
       IN /\ K1 \in DOMAIN table
          /\ last.key \in DOMAIN table
          /\ table[K1].scope = "agent"
          /\ table[last.key].scope = "team"
          /\ table[K1].value_json # table[last.key].value_json
          /\ table[last.key].value_json = json_dumps(last.value)

\* C11: delete(k, s) targets the one storage key "N:k" (s = "agent") or "k"
\* (otherwise); it returns TRUE iff that entry existed, removes it and no
\* other, leaves every other entry as it was, and on a missing key returns
\* FALSE and leaves the table unchanged.
C11_DeleteEffect ==
    [][last'.op = "delete" =>
        LET K == DocumentedKey(last'.agent, last'.key, last'.scope)
        IN /\ last'.ret = (K \in DOMAIN table)
           /\ DOMAIN table' = DOMAIN table \ {K}
           /\ \A J \in DOMAIN table' : table'[J] = table[J]
           /\ K \notin DOMAIN table => (table' = table /\ last'.ret = FALSE)]_vars

\* A delete with scope agent removed "N:k" and left the shared entry "k".
C11_Witness ==
    /\ last.op = "delete"
    /\ last.scope = "agent"
    /\ last.ret
    /\ DocumentedKey(last.agent, last.key, "agent") \notin DOMAIN table
    /\ last.key \in DOMAIN table

\* C12 as stated: after a delete(k, s) by agent A that returned TRUE, an
\* immediately following unscoped get(k) by A returns the default.
C12_DeleteThenGet ==
    [][(/\ last.op = "delete" /\ last.ret
        /\ last'.op = "get"
        /\ last'.scope = NoScope
        /\ last'.agent = last.agent
        /\ last'.key = last.key) => last'.ret = last'.default]_vars

\* C12 amended: after a delete(k, s) by agent A that returned TRUE, a
\* following get(k, s) with the same explicit scope returns the default; a
\* following unscoped get(k) returns the value of "N:k" if that entry remains,
\* otherwise the value of "k" if that entry remains, and the default only when
\* neither remains.
C12_DeleteThenGetSameScope ==
    [][(/\ last.op = "delete" /\ last.ret
        /\ last'.op = "get"
        /\ last'.agent = last.agent
        /\ last'.key = last.key) =>
        LET P == DocumentedKey(last.agent, last.key, "agent")
            k == last.key
        IN /\ (last'.scope = last.scope /\ last.scope \in Scopes)
                => last'.ret = last'.default
           /\ last'.scope = NoScope =>
                last'.ret = IF P \in DOMAIN table THEN EntryValue(P)
                            ELSE IF k \in DOMAIN table THEN EntryValue(k)
                            ELSE last'.default]_vars

\* A delete(k, "team") returned TRUE while the caller's private entry "N:k"
\* exists: the unscoped get(k) that follows finds "N:k".
C12_Witness ==
    /\ last.op = "delete"
    /\ last.scope = "team"
    /\ last.ret
    /\ last.key \notin DOMAIN table
    /\ DocumentedKey(last.agent, last.key, "agent") \in DOMAIN table

\* x occurs in text as a run of consecutive characters
Contains(text, x) ==
    \E i \in 0..(Len(text) - Len(x)) : SubSeq(text, i + 1, i + Len(x)) = x

\* text with its letters folded to one case
Folded(text) == [i \in DOMAIN text |-> UpperChar(text[i])]

\* the storage keys of the entries a search or list returned
ReturnedKeys == {last.ret[i].key : i \in DOMAIN last.ret}

\* C13: search(X, f) returns exactly the entries whose storage key or
\* serialized value contains X as a substring (letters compared without
\* regard to case, the reading most favourable to the code), restricted to
\* scope f when f is given; none omitted, none added, none twice.
C13_SearchExact ==
    last.op = "search" =>
        /\ ReturnedKeys =
            {K \in DOMAIN table :
                /\ \/ Contains(Folded(K), Folded(last.query))
                   \/ Contains(Folded(table[K].value_json), Folded(last.query))
                /\ last.scope # NoScope => table[K].scope = last.scope}
        /\ Len(last.ret) = Cardinality(ReturnedKeys)

\* the entries of a result, each as the table holds it
ResultIsRows ==
    \A i \in DOMAIN last'.ret :
        /\ last'.ret[i].key \in DOMAIN table
        /\ last'.ret[i].scope = table[last'.ret[i].key].scope
        /\ last'.ret[i].owner = table[last'.ret[i].key].owner
        /\ last'.ret[i].updated = table[last'.ret[i].key].updated
        /\ last'.ret[i].value = json_loads(table[last'.ret[i].key].value_json)

\* list_all(scope, owner) returns every entry matching the filters, once
ListComplete ==
    last'.op = "list_all" =>
        /\ {last'.ret[i].key : i \in DOMAIN last'.ret} =
            {K \in DOMAIN table :
                /\ last'.scope # NoScope => table[K].scope = last'.scope
                /\ last'.owner # <<>> => table[K].owner = last'.owner}
        /\ \A i, j \in DOMAIN last'.ret :
                last'.ret[i].key = last'.ret[j].key => i = j

\* C14 as stated: list returns every matching entry exactly once; list and
\* search order their entries by updated descending, i.e. the entry written
\* by the store just before the query comes before every other entry.
C14_LaterWrittenFirst ==
    [][last'.op \in {"list_all", "search"} =>
        /\ ResultIsRows
        /\ ListComplete
        /\ \A i, j \in DOMAIN last'.ret :
                i < j => last'.ret[i].updated >= last'.ret[j].updated
        /\ last.op = "store" =>
                \A j \in DOMAIN last'.ret :
                    last'.ret[j].key = DocumentedKey(last.agent, last.key, last.scope)
                        => j = 1]_vars

\* C14 amended: list returns every matching entry exactly once; list and
\* search order their entries by the updated field, descending: an entry with
\* a greater updated never comes after one with a smaller updated, and the
\* entry written by the store just before the query is preceded only by
\* entries with the same updated.
C14_OrderedByUpdated ==
    [][last'.op \in {"list_all", "search"} =>
        /\ ResultIsRows
        /\ ListComplete
        /\ \A i, j \in DOMAIN last'.ret :
                i < j => last'.ret[i].updated >= last'.ret[j].updated
        /\ last.op = "store" =>
                \A i, j \in DOMAIN last'.ret :
                    (/\ last'.ret[j].key = DocumentedKey(last.agent, last.key, last.scope)
                     /\ i < j) => last'.ret[i].updated = last'.ret[j].updated]_vars

\* An unfiltered list returned two entries, the more recently updated first.
C14_Witness ==
    /\ last.op = "list_all"
    /\ last.scope = NoScope
    /\ last.owner = <<>>
    /\ Len(last.ret) = 2
    /\ last.ret[1].updated > last.ret[2].updated

\* C15: search, list and stats never modify the table: no entry appears or
\* disappears and no field of an entry (access_count, updated, value, ...)
\* changes.
C15_QueriesReadOnly ==
    [][last'.op \in {"search", "list_all", "get_stats"} =>
        /\ table' = table
        /\ now' = now]_vars

\* A search returned an entry that has never been accessed, and the table
\* still has it with access_count 0.
C15_Witness ==
    /\ last.op = "search"
    /\ Len(last.ret) = 2
    /\ \E i \in DOMAIN last.ret :
            /\ last.ret[i].access_count = 0
            /\ table[last.ret[i].key].access_count = 0
    /\ \E i \in DOMAIN last.ret : last.ret[i].access_count = 1

\* the sum of the counts of a dict, counted as pairs
SumOfCounts(d) ==
    Cardinality({p \in (DOMAIN d) \X (1..(MaxEntries + 1)) : p[2] <= d[p[1]]})

\* C16: stats returns total = number of entries; by_scope = for each scope
\* that has entries, their number; by_owner = for each owner that has
\* entries, their number; total_accesses = sum of access_count (0 for an
\* empty table); the by_scope counts and the by_owner counts each sum to total.
C16_StatsCorrect ==
    last.op = "get_stats" =>
        LET r == last.ret
            owners == {upper(a) : a \in AgentNames}
        IN /\ r.total_memories = Cardinality(DOMAIN table)
           /\ DOMAIN r.by_scope \subseteq Scopes
           /\ \A s \in Scopes :
                LET n == Cardinality({K \in DOMAIN table : table[K].scope = s})
                IN IF n = 0 THEN s \notin DOMAIN r.by_scope
                   ELSE s \in DOMAIN r.by_scope /\ r.by_scope[s] = n
           /\ DOMAIN r.by_owner \subseteq owners
           /\ \A o \in owners :
                LET n == Cardinality({K \in DOMAIN table : table[K].owner = o})
                IN IF n = 0 THEN o \notin DOMAIN r.by_owner
                   ELSE o \in DOMAIN r.by_owner /\ r.by_owner[o] = n
           /\ r.total_accesses =
                Cardinality({p \in (DOMAIN table) \X (1..(MaxAccess + 1)) :
                                p[2] <= table[p[1]].access_count})
           /\ table = <<>> => r.total_accesses = 0
           /\ SumOfCounts(r.by_scope) = r.total_memories
           /\ SumOfCounts(r.by_owner) = r.total_memories

\* Stats over two entries of two owners and two scopes, one of them accessed.
C16_Witness ==
    /\ last.op = "get_stats"
    /\ last.ret.total_memories = 2
    /\ Cardinality(DOMAIN last.ret.by_owner) = 2
    /\ Cardinality(DOMAIN last.ret.by_scope) = 2
    /\ last.ret.total_accesses = 1

\* C17: a store with an empty or non-string key, or with a scope outside
\* {agent, team, global}, raises, and leaves the table (and the clock) as they
\* were; every other store goes through.
C17_RejectedBeforeWrite ==
    [][last'.op = "store" =>
        IF "raised" \in DOMAIN last'
        THEN /\ \/ last'.key.type # "str"
                \/ last'.key.s = <<>>
                \/ last'.scope \notin Scopes
             /\ table' = table
             /\ now' = now
        ELSE /\ last'.key # <<>>
             /\ last'.scope \in Scopes
             /\ last'.ret = TRUE]_vars

\* A store with a valid key and an invalid scope was rejected while the table
\* holds entries.
C17_Witness ==
    /\ last.op = "store"
    /\ "raised" \in DOMAIN last
    /\ last.key = PyStr(<<"k">>)
    /\ last.scope = "bad"
    /\ Cardinality(DOMAIN table) = 2

\* instance a takes the last step of its get: the UPDATE, then the return
GetUpdateStep(a) == calls[a].pc = "get_update" /\ calls'[a].pc = "idle"

\* instance a takes the last step of its store: the upsert, then the return
StoreUpsertStep(a) == calls[a].pc = "store_upsert" /\ calls'[a].pc = "idle"

\* C18 as stated: nothing takes effect between a get's lookup and its
\* increment, so a get that returns a value increments the counter of an entry
\* that still exists and still holds the returned value.
C18_GetAtomic ==
    [][\A a \in AgentNames : GetUpdateStep(a) =>
        LET m == calls[a].matched
        IN /\ m \in DOMAIN table
           /\ table[m].value_json = calls[a].row[1]
           /\ last'.ret = json_loads(table[m].value_json)
           /\ table'[m].access_count = table[m].access_count + 1]_vars

\* C18 amended: a get that returns a value returns the value the matched
\* entry held when it was looked up; its increment adds 1 to that entry's
\* counter if the entry still exists when the UPDATE runs (whatever value it
\* holds by then) and leaves the entry absent if it has been deleted since.
C18_GetReturnsValueRead ==
    [][\A a \in AgentNames : GetUpdateStep(a) =>
        LET m == calls[a].matched
        IN /\ last'.op = "get"
           /\ last'.ret = json_loads(calls[a].row[1])
           /\ m \in DOMAIN table =>
                /\ m \in DOMAIN table'
                /\ table'[m].access_count = table[m].access_count + 1
                /\ table'[m].value_json = table[m].value_json
           /\ m \notin DOMAIN table => m \notin DOMAIN table']_vars

\* A get has returned a stored value although the table is empty: the entry
\* was deleted between the lookup and the increment.
C18_Witness ==
    /\ last.op = "get"
    /\ last.ret # last.default
    /\ table = <<>>

\* C19: concurrent stores to one storage key are serialized by their upserts:
\* each upsert leaves exactly one entry under the key, holding the value and
\* metadata of the store that commits it, whatever store began first; until
\* another call completes the entry holds the value of the store committed
\* last; and a get that looks the key up then reads that value.
C19_LastCommitWins ==
    /\ [][\A a \in AgentNames : StoreUpsertStep(a) =>
            LET c == calls[a]
            IN /\ DOMAIN table' = DOMAIN table \cup {c.skey}
               /\ table'[c.skey].value_json = json_dumps(c.value)
               /\ table'[c.skey].metadata_json = c.metadata_json
               /\ \A K \in DOMAIN table : K # c.skey => table'[K] = table[K]
               /\ last'.op = "store" /\ last'.value = c.value]_vars
    /\ [](last.op = "store" =>
            LET K == DocumentedKey(last.agent, last.key, last.scope)
            IN K \in DOMAIN table /\ EntryValue(K) = AsJson(last.value))
    /\ [][\A a \in AgentNames :
            (/\ last.op = "store"
             /\ calls[a].pc \in {"idle", "get_select2"}
             /\ calls'[a].pc = "get_update"
             /\ calls'[a].matched = DocumentedKey(last.agent, last.key, last.scope))
            => json_loads(calls'[a].row[1]) = AsJson(last.value)]_vars

\* A store that began before another agent's store committed after it: the
\* entry holds the value of the later commit, with the earlier timestamp.
C19_Witness ==
    /\ last.op = "store"
    /\ LET K == DocumentedKey(last.agent, last.key, last.scope)
       IN /\ K \in DOMAIN table
          /\ table[K].owner # last.agent
          /\ table[K].updated < table[K].created
          /\ table[K].value_json = json_dumps(last.value)
          /\ table[K].value_type = "tuple"

\* C20: a subcommand exits non-zero exactly when its options are incomplete,
\* its operation reports failure (store or delete returning False) or the
\* requested key is not found (get), and zero otherwise.
C20_ExitStatus ==
    [][last'.op = "main" =>
        LET c == last'
            failed ==
                \/ ~c.called
                \/ c.command \in {"store", "delete"} /\ c.ret = FALSE
                \/ /\ c.command = "get"
                   /\ GetMatchedKey(table, c.agent, c.key, c.scope) = <<>>
        IN (c.exit # 0) <=> failed]_vars

\* C21: get(k, scope=s) with an explicit s returns a stored value only from
\* an entry whose scope field equals s; otherwise it returns the default.
C21_ScopeFilters ==
    (last.op = "get" /\ last.scope \in Scopes) =>
        LET m == GetMatchedKey(table, last.agent, last.key, last.scope)
        IN IF m # <<>> /\ table[m].scope = last.scope
           THEN last.ret = EntryValue(m)
           ELSE last.ret = last.default

\* C22: no store or delete issued by agent B changes the value of, or
\* removes, an entry that another agent A created with scope agent.
C22_PrivateUnaltered ==
    [][last'.op \in {"store", "delete"} =>
        \A K \in DOMAIN table :
            (table[K].scope = "agent" /\ table[K].owner # last'.agent) =>
                /\ K \in DOMAIN table'
                /\ table'[K].value_json = table[K].value_json]_vars

\* C23: also with the stores of several instances interleaved, every entry
\* has created <= updated, and no committed write lowers an entry's updated.
C23_TimestampsOrdered ==
    /\ [](\A K \in DOMAIN table : table[K].created <= table[K].updated)
    /\ [][\A K \in DOMAIN table \cap DOMAIN table' :
            table'[K].updated >= table[K].updated]_vars

\* C24: also while other instances store or delete, the total stats returns
\* equals the sum of its by_scope counts and the sum of its by_owner counts.
C24_StatsSnapshot ==
    last.op = "get_stats" =>
        /\ SumOfCounts(last.ret.by_scope) = last.ret.total_memories
        /\ SumOfCounts(last.ret.by_owner) = last.ret.total_memories

====
